---- MODULE Spec2Model ----
(***************************************************************************)
(* Model of src/server.js, the "v6-ultra" server (lines 298-916): presence *)
(* registry, pairing codes, HMAC capability tokens with a per-user         *)
(* revocation epoch, the per-user event queue, the SSE push hub and the    *)
(* periodic cleanup tasks.  Node runs every handler and every timer        *)
(* callback to completion on one thread, so each is one atomic action.     *)
(*                                                                         *)
(* Conventions                                                             *)
(*  - now is Date.now() (nowMs, line 362).  A handler reads the clock      *)
(*    several times; all reads of one handler see the same millisecond.    *)
(*    The clock never goes back.  Time advances between handlers to the    *)
(*    instants of a finite grid chosen per specification.                  *)
(*  - resp is the last exchange: the handler (or timer callback) that ran,  *)
(*    the user, code, connection or muted value of its request and its     *)
(*    reply; every action writes it.                                       *)
(*  - tokens is the set of tokens the server has handed out (the clients'  *)
(*    side of POST /session/verify).                                       *)
(*  - rateLimit() (line 376) decides from the hits table and the clock     *)
(*    alone and nothing else reads that table: a handler takes its verdict *)
(*    as the input "limited", except in the rate-limit specification,      *)
(*    where GET /radio/active runs with the limiter and the table.         *)
(*  - presence[key].updatedAt (line 606) is written and never read; the    *)
(*    field is left out.                                                   *)
(***************************************************************************)
EXTENDS Integers, Sequences, FiniteSets, TLC

(***************************************************************************)
(* Program constants                                                       *)
(***************************************************************************)
SESSION_TTL_MS == 120000
RADIO_TTL_MS == 300000
STATE_TTL_MS == 25000
STATE_MIN_GAP_MS == 700
WEB_TOKEN_TTL_MS == 600000
JOIN_DEDUP_MS == 10000
MUTE_DEDUP_MS == 1500
\* deployment configuration: MAX_SSE_PER_USER=2 MAX_SSE_PER_IP=2
MAX_SSE_PER_USER == 2
MAX_SSE_PER_IP == 2

(***************************************************************************)
(* Bounds of the model                                                     *)
(***************************************************************************)
StartTime == 1000
MaxTokens == 2
MaxQueue == 3
MaxConns == 3
MaxFrames == 3

(***************************************************************************)
(* Inputs                                                                  *)
(***************************************************************************)
Users == {"alice", "bob"}
RawUsers == {"Alice", "bob", ""}
Codes == {"AAAAAAA", "BBBBBBB"}
RawCodes == {" aaaaaaa ", "BBBBBBB", ""}
NoCode == "none"
KeyHeaders == {"srvkey", "wrong"}
BoolInputs == {"true", "false", "none"}
\* havePass as sent by the game server: with the presence, and with the
\* pairing request
PresencePass == {"none"}
CreatePass == {"true"}

\* String(username).toLowerCase()
toLowerCase(s) == IF s = "Alice" THEN "alice" ELSE s

\* String(code).trim().toUpperCase()
trimUpper(s) == IF s = " aaaaaaa " THEN "AAAAAAA" ELSE s

\* instants of the pairing scenarios: the start, one millisecond later, the
\* expiry of a code issued at the start, and the first instant at which a
\* token minted at the start has expired and the revocation GC drops an epoch
\* set at the start
PairTimes ==
  { StartTime, StartTime + 1, StartTime + SESSION_TTL_MS,
    StartTime + WEB_TOKEN_TTL_MS + 1 }

VARIABLES
  ROBLOX_SERVER_KEY,  \* process.env.ROBLOX_SERVER_KEY || ""
  WEB_TOKEN_SECRET,   \* process.env.WEB_TOKEN_SECRET || ""
  now,
  presence,           \* username -> [inGame, havePass]
  sessions,           \* code -> [username, havePass, exp]
  sessionsByUser,     \* username -> code
  tokenRevokedAt,     \* username -> ms
  radioState,         \* username -> snapshot
  radioQueue,         \* username -> sequence of events
  sseClients,         \* username -> set of connections
  sseIpCount,         \* ip -> number of open subscriptions
  conns,              \* connection -> [user, ip, status, hb, frames]
  hits,               \* rate-limit key -> [count, resetAt]
  tokens,             \* tokens handed out
  resp                \* reply of the last handler

cfgVars == <<ROBLOX_SERVER_KEY, WEB_TOKEN_SECRET>>
pairVars == <<sessions, sessionsByUser, tokenRevokedAt, tokens>>
hubVars == <<sseClients, sseIpCount, conns>>
vars == <<ROBLOX_SERVER_KEY, WEB_TOKEN_SECRET, now, presence, sessions,
          sessionsByUser, tokenRevokedAt, radioState, radioQueue, sseClients,
          sseIpCount, conns, hits, tokens, resp>>

(***************************************************************************)
(* Small helpers on maps (JS objects used as dictionaries)                 *)
(***************************************************************************)
Has(m, k) == k \in DOMAIN m
Put(m, k, v) == [x \in DOMAIN m \cup {k} |-> IF x = k THEN v ELSE m[x]]
Del(m, k) == [x \in DOMAIN m \ {k} |-> m[x]]
Empty == [x \in {} |-> 0]

(***************************************************************************)
(* Replies                                                                 *)
(***************************************************************************)
NoToken == [parts |-> 0, u |-> "", iat |-> 0, exp |-> 0, sig |-> <<>>]

Reply(op, user, status, ok, error) ==
  [op |-> op, user |-> user, status |-> status, ok |-> ok, error |-> error,
   code |-> NoCode, token |-> NoToken, ignored |-> FALSE, pushed |-> FALSE,
   events |-> <<>>, conn |-> 0, arg |-> "", listeners |-> <<>>]

Timer(op) == Reply(op, "", 0, TRUE, "")

(***************************************************************************)
(* Tokens                                                                  *)
(***************************************************************************)
\* crypto.createHmac("sha256", key).update(payload).digest(): a function of the
\* key and the payload that nobody computes without the key
Hmac(key, u, iat, exp) == <<key, u, iat, exp>>

makeWebToken(usernameLower, t) ==
  IF WEB_TOKEN_SECRET = "" THEN NoToken
  ELSE [parts |-> 2, u |-> usernameLower, iat |-> t, exp |-> t + WEB_TOKEN_TTL_MS,
        sig |-> Hmac(WEB_TOKEN_SECRET, usernameLower, t, t + WEB_TOKEN_TTL_MS)]

RevokedAtOrZero(uname) == IF Has(tokenRevokedAt, uname) THEN tokenRevokedAt[uname] ELSE 0

\* the comparison with <= for <
IsRevokedAtEpoch(iat, revokedAt) == iat # 0 /\ iat <= revokedAt

\* payloadObj.iat && payloadObj.iat < revokedAt
IsRevoked(iat, revokedAt) == iat # 0 /\ iat < revokedAt

verifyWebToken(token, t) ==
  IF WEB_TOKEN_SECRET = "" THEN [ok |-> FALSE, error |-> "token_disabled", username |-> ""]
  ELSE IF token = NoToken THEN [ok |-> FALSE, error |-> "missing_token", username |-> ""]
  ELSE IF token.parts # 2 THEN [ok |-> FALSE, error |-> "bad_token_format", username |-> ""]
  ELSE IF token.sig # Hmac(WEB_TOKEN_SECRET, token.u, token.iat, token.exp)
    THEN [ok |-> FALSE, error |-> "bad_signature", username |-> ""]
  ELSE IF token.u = "" \/ token.exp = 0
    THEN [ok |-> FALSE, error |-> "bad_payload", username |-> ""]
  ELSE IF token.exp <= t THEN [ok |-> FALSE, error |-> "token_expired", username |-> ""]
  ELSE IF IsRevoked(token.iat, RevokedAtOrZero(toLowerCase(token.u)))
    THEN [ok |-> FALSE, error |-> "token_revoked", username |-> ""]
  ELSE [ok |-> TRUE, error |-> "", username |-> toLowerCase(token.u)]

\* a gate that takes any token that verifies, whoever it was minted for
requireTokenAnyUser(token, usernameLower, t) ==
  IF WEB_TOKEN_SECRET = "" THEN [status |-> 0, error |-> ""]
  ELSE LET v == verifyWebToken(token, t) IN
    IF ~v.ok THEN [status |-> 401, error |-> v.error]
    ELSE [status |-> 0, error |-> ""]

\* the verdict of requireTokenForUser: status 0 lets the handler go on
requireTokenForUser(token, usernameLower, t) ==
  IF WEB_TOKEN_SECRET = "" THEN [status |-> 0, error |-> ""]
  ELSE LET v == verifyWebToken(token, t) IN
    IF ~v.ok THEN [status |-> 401, error |-> v.error]
    ELSE IF v.username # usernameLower THEN [status |-> 403, error |-> "token_user_mismatch"]
    ELSE [status |-> 0, error |-> ""]

\* what a client can present: nothing, a token it was handed, or a payload it
\* signed with a key of its own
ForgedToken(u, t) ==
  [parts |-> 2, u |-> u, iat |-> t, exp |-> t + WEB_TOKEN_TTL_MS,
   sig |-> Hmac("guess", u, t, t + WEB_TOKEN_TTL_MS)]

TokenInputs == tokens \cup {NoToken} \cup {ForgedToken(u, now) : u \in Users}

(***************************************************************************)
(* Presence                                                                *)
(***************************************************************************)
\* the test without its second half
InGameListed(uname) == Has(presence, uname)

\* !presence[uname] || !presence[uname].inGame, negated
InGame(uname) == Has(presence, uname) /\ presence[uname].inGame

Init ==
  /\ ROBLOX_SERVER_KEY \in {"", "srvkey"}
  /\ WEB_TOKEN_SECRET \in {"", "s3cret"}
  /\ now = StartTime
  /\ presence = Empty
  /\ sessions = Empty
  /\ sessionsByUser = Empty
  /\ tokenRevokedAt = Empty
  /\ radioState = Empty
  /\ radioQueue = Empty
  /\ sseClients = Empty
  /\ sseIpCount = Empty
  /\ conns = Empty
  /\ hits = Empty
  /\ tokens = {}
  /\ resp = Timer("init")

\* Date.now() between two handlers
Tick(grid) ==
  /\ \E t \in grid : t > now /\ now' = t
  /\ resp' = Timer("tick")
  /\ UNCHANGED <<cfgVars, hits, presence, pairVars, radioState, radioQueue, hubVars>>

\* POST /presence
PostPresence(limited, rawUser, inGameIn, havePassIn) ==
  /\ UNCHANGED <<cfgVars, hits, now, pairVars, radioState, radioQueue, hubVars>>
  /\ IF limited
       THEN /\ resp' = Reply("presence", "", 429, FALSE, "rate_limited")
            /\ UNCHANGED presence
     ELSE IF rawUser = "" \/ inGameIn \notin {"true", "false"}
       THEN /\ resp' = Reply("presence", "", 400, FALSE, "bad_request")
            /\ UNCHANGED presence
     ELSE /\ presence' = Put(presence, toLowerCase(rawUser),
                             [inGame |-> (inGameIn = "true"), havePass |-> (havePassIn = "true")])
          /\ resp' = Reply("presence", toLowerCase(rawUser), 200, TRUE, "")

(***************************************************************************)
(* Push hub: writing to the subscribers of a user                          *)
(***************************************************************************)
Subscribers(key) == IF Has(sseClients, key) THEN sseClients[key] ELSE {}

\* room left in the recorded frame logs of the subscribers of key
FramesRoom(key) == \A id \in Subscribers(key) : Len(conns[id].frames) < MaxFrames

\* sseSendToUser: the frame is written to every subscriber of the user
ConnsAfterSend(key, frame) ==
  [id \in DOMAIN conns |->
     IF id \in Subscribers(key)
       THEN [conns[id] EXCEPT !.frames = Append(@, frame)]
       ELSE conns[id]]

\* a send that reports no subscriber
PushedNever(key) == FALSE

\* the value sseSendToUser returns
Pushed(key) == Subscribers(key) # {}

(***************************************************************************)
(* Pairing                                                                 *)
(***************************************************************************)
\* a code that still counts at the instant of its expiry
SessionExpiredLate(s, t) == s.exp < t

\* !s || s.exp <= t
SessionExpired(s, t) == s.exp <= t

\* a sweep that drops nothing
SessionsKept(t) == sessions

\* cleanupSessions: the primary table afterwards
SessionsCleaned(t) ==
  [c \in {c \in DOMAIN sessions : ~SessionExpired(sessions[c], t)} |-> sessions[c]]

\* cleanupSessions without line 546: the index keeps the swept codes
ByUserKept(t) == sessionsByUser

\* cleanupSessions: the per-user index afterwards
ByUserCleaned(t) ==
  [u \in {u \in DOMAIN sessionsByUser :
            ~\E c \in DOMAIN sessions :
               /\ SessionExpired(sessions[c], t)
               /\ sessions[c].username = u
               /\ sessionsByUser[u] = c} |-> sessionsByUser[u]]

\* setInterval(cleanupSessions, 30 * 1000)
cleanupSessions ==
  /\ sessions' = SessionsCleaned(now)
  /\ sessionsByUser' = ByUserCleaned(now)
  /\ resp' = Timer("cleanupSessions")
  /\ UNCHANGED <<cfgVars, hits, now, presence, tokenRevokedAt, tokens, radioState,
                 radioQueue, hubVars>>

\* POST /session/create without line 641: the previous record stays
PrevKept(s, b, uname) == s

\* POST /session/create, lines 640-641: the previous code of the user is dropped
WithoutPrev(s, b, uname) ==
  IF Has(b, uname) /\ Has(s, b[uname]) THEN Del(s, b[uname]) ELSE s

\* POST /session/create, line 644
RevokedNow(uname, t) == Put(tokenRevokedAt, uname, t)

\* the for loop of POST /session/create: a free code, or none when all 12
\* draws hit codes in use
CodeDraws(s) == (Codes \ DOMAIN s) \cup (IF DOMAIN s # {} THEN {NoCode} ELSE {})

KeyOk(hdr) == ROBLOX_SERVER_KEY # "" /\ hdr = ROBLOX_SERVER_KEY

\* POST /session/create
SessionCreate(hdr, rawUser, havePassIn) ==
  LET uname == toLowerCase(rawUser)
      s1 == SessionsCleaned(now)
      b1 == ByUserCleaned(now)
      s2 == WithoutPrev(s1, b1, uname)
      b2 == Del(b1, uname)
  IN
  /\ UNCHANGED <<cfgVars, hits, now, presence, tokens, radioQueue, sseClients, sseIpCount>>
  /\ IF ~KeyOk(hdr)
       THEN /\ resp' = Reply("create", "", 401, FALSE, "unauthorized")
            /\ UNCHANGED <<sessions, sessionsByUser, tokenRevokedAt, radioState, conns>>
     ELSE IF rawUser = ""
       THEN /\ resp' = Reply("create", "", 400, FALSE, "bad_request")
            /\ UNCHANGED <<sessions, sessionsByUser, tokenRevokedAt, radioState, conns>>
     ELSE IF ~InGame(uname)
       THEN /\ sessions' = s1
            /\ sessionsByUser' = b1
            /\ resp' = Reply("create", uname, 403, FALSE, "not_in_game")
            /\ UNCHANGED <<tokenRevokedAt, radioState, conns>>
     ELSE /\ FramesRoom(uname)
          /\ tokenRevokedAt' = RevokedNow(uname, now)
          /\ radioState' = Del(radioState, uname)
          /\ conns' = ConnsAfterSend(uname, "KICK")
          /\ \E c \in CodeDraws(s2) :
               IF c = NoCode
                 THEN /\ sessions' = s2
                      /\ sessionsByUser' = b2
                      /\ resp' = Reply("create", uname, 500, FALSE, "code_generation_failed")
                 ELSE /\ sessions' = Put(s2, c, [username |-> uname,
                                                 havePass |-> (havePassIn = "true"),
                                                 exp |-> now + SESSION_TTL_MS])
                      /\ sessionsByUser' = Put(b2, uname, c)
                      /\ resp' = [Reply("create", uname, 200, TRUE, "") EXCEPT !.code = c]

\* POST /session/verify without line 682: the redeemed code stays
RedeemedKept(s, key) == s

\* POST /session/verify, lines 682-683: the redeemed code leaves the table
Redeemed(s, key) == Del(s, key)

\* POST /session/verify without line 677: the refused code stays
RefusedKept(s, key) == s

\* line 677: the code of a user who is not in game leaves the table
Refused(s, key) == Del(s, key)

\* lines 678 and 683: if (sessionsByUser[u] === key) delete sessionsByUser[u]
Unindexed(b, uname, key) == IF Has(b, uname) /\ b[uname] = key THEN Del(b, uname) ELSE b

\* POST /session/verify
SessionVerify(limited, rawCode) ==
  LET key == trimUpper(rawCode)
      s1 == SessionsCleaned(now)
      b1 == ByUserCleaned(now)
  IN
  /\ UNCHANGED <<cfgVars, hits, now, presence, tokenRevokedAt, radioState, radioQueue, hubVars>>
  /\ IF limited
       THEN /\ resp' = Reply("verify", "", 429, FALSE, "rate_limited")
            /\ UNCHANGED <<sessions, sessionsByUser, tokens>>
     ELSE IF rawCode = ""
       THEN /\ resp' = Reply("verify", "", 400, FALSE, "bad_request")
            /\ UNCHANGED <<sessions, sessionsByUser, tokens>>
     ELSE IF ~Has(s1, key)
       THEN /\ sessions' = s1
            /\ sessionsByUser' = b1
            /\ resp' = [Reply("verify", "", 200, FALSE, "invalid_or_expired") EXCEPT !.code = key]
            /\ UNCHANGED tokens
     ELSE LET sess == s1[key] IN
       IF ~InGame(sess.username)
         THEN /\ sessions' = Refused(s1, key)
              /\ sessionsByUser' = Unindexed(b1, sess.username, key)
              /\ resp' = [Reply("verify", sess.username, 200, FALSE, "not_in_game")
                            EXCEPT !.code = key]
              /\ UNCHANGED tokens
         ELSE LET token == makeWebToken(sess.username, now) IN
              /\ token = NoToken \/ token \in tokens \/ Cardinality(tokens) < MaxTokens
              /\ sessions' = Redeemed(s1, key)
              /\ sessionsByUser' = Unindexed(b1, sess.username, key)
              /\ tokens' = IF token = NoToken THEN tokens ELSE tokens \cup {token}
              /\ resp' = [Reply("verify", sess.username, 200, TRUE, "")
                            EXCEPT !.code = key, !.token = token]

\* 60 * 1000 written for 10 * 60 * 1000, with a token lifetime below it
RevocationTtlShort == 60 * 1000

\* Math.max(WEB_TOKEN_TTL_MS, 10 * 60 * 1000)
RevocationTtl == IF WEB_TOKEN_TTL_MS > 600000 THEN WEB_TOKEN_TTL_MS ELSE 600000

\* setInterval(cleanupTokenRevocations, 60 * 1000)
cleanupTokenRevocations ==
  /\ tokenRevokedAt' =
       [u \in {u \in DOMAIN tokenRevokedAt : ~(now - tokenRevokedAt[u] > RevocationTtl)}
          |-> tokenRevokedAt[u]]
  /\ resp' = Timer("cleanupTokenRevocations")
  /\ UNCHANGED <<cfgVars, hits, now, presence, sessions, sessionsByUser, tokens, radioState,
                 radioQueue, hubVars>>

(***************************************************************************)
(* Pairing and tokens on their own                                         *)
(***************************************************************************)
NextPair ==
  \/ Tick(PairTimes)
  \/ \E u \in RawUsers, g \in BoolInputs, h \in PresencePass, l \in BOOLEAN :
       PostPresence(l, u, g, h)
  \/ \E k \in KeyHeaders, u \in RawUsers, h \in CreatePass : SessionCreate(k, u, h)
  \/ \E l \in BOOLEAN, c \in RawCodes : SessionVerify(l, c)
  \/ cleanupSessions
  \/ cleanupTokenRevocations

SpecPair == Init /\ [][NextPair]_vars

(***************************************************************************)
(* The state after scenario S1 for both users, all within the first        *)
(* millisecond: presence posted in-game, a code issued and redeemed.  The  *)
(* queue and hub specifications start here, with a token in each client's  *)
(* hands.                                                                  *)
(***************************************************************************)
InitPaired ==
  /\ ROBLOX_SERVER_KEY = "srvkey"
  /\ WEB_TOKEN_SECRET = "s3cret"
  /\ now = StartTime
  /\ presence = [u \in Users |-> [inGame |-> TRUE, havePass |-> FALSE]]
  /\ sessions = Empty
  /\ sessionsByUser = Empty
  /\ tokenRevokedAt = [u \in Users |-> StartTime]
  /\ radioState = Empty
  /\ radioQueue = Empty
  /\ sseClients = Empty
  /\ sseIpCount = Empty
  /\ conns = Empty
  /\ hits = Empty
  /\ tokens = {makeWebToken(u, StartTime) : u \in Users}
  /\ resp = Timer("init")

(***************************************************************************)
(* Event queue                                                             *)
(***************************************************************************)
\* instants of the queue scenarios: the start, then the ends of the mute
\* window, of the join window and of RADIO_TTL for an event stored at the
\* start.  Two requests at one instant are inside both windows; the gaps
\* between the instants are at or beyond them.
QueueTimes ==
  { StartTime, StartTime + MUTE_DEDUP_MS, StartTime + JOIN_DEDUP_MS,
    StartTime + RADIO_TTL_MS }

Queue(key) == IF Has(radioQueue, key) THEN radioQueue[key] ELSE <<>>

\* ts || d
TsOr(ts, d) == IF ts = 0 THEN d ELSE ts

JoinEvent(t) == [type |-> "RADIO_JOIN", target |-> "roblox", ts |-> t]

MuteEvent(muted, t) ==
  [type |-> IF muted THEN "RADIO_MUTE" ELSE "RADIO_UNMUTE", target |-> "web",
   muted |-> muted, ts |-> t]

\* the join dedup with the window of the mute dedup
JoinCoalescedShort(q, t) ==
  /\ q # <<>>
  /\ q[Len(q)].type = "RADIO_JOIN"
  /\ t - TsOr(q[Len(q)].ts, 0) < MUTE_DEDUP_MS

\* line 744: last && last.type === "RADIO_JOIN" && t - (last.ts || 0) < 10_000
JoinCoalesced(q, t) ==
  /\ q # <<>>
  /\ q[Len(q)].type = "RADIO_JOIN"
  /\ t - TsOr(q[Len(q)].ts, 0) < JOIN_DEDUP_MS

\* the mute dedup without the comparison of the muted values
MuteCoalescedAny(q, muted, t) ==
  /\ q # <<>>
  /\ "muted" \in DOMAIN q[Len(q)]
  /\ t - q[Len(q)].ts < MUTE_DEDUP_MS

\* lines 770 and 802: last && typeof last.muted === "boolean" &&
\* last.muted === muted && nowMs() - last.ts < 1500
MuteCoalesced(q, muted, t) ==
  /\ q # <<>>
  /\ "muted" \in DOMAIN q[Len(q)]
  /\ q[Len(q)].muted = muted
  /\ t - q[Len(q)].ts < MUTE_DEDUP_MS

\* POST /radio/join
RadioJoin(limited, rawUser, token) ==
  LET key == toLowerCase(rawUser)
      v == requireTokenForUser(token, key, now)
      q == Queue(key)
  IN
  /\ UNCHANGED <<cfgVars, hits, now, presence, pairVars, radioState, hubVars>>
  /\ IF limited
       THEN /\ resp' = Reply("join", "", 429, FALSE, "rate_limited")
            /\ UNCHANGED radioQueue
     ELSE IF rawUser = ""
       THEN /\ resp' = Reply("join", "", 400, FALSE, "bad_request")
            /\ UNCHANGED radioQueue
     ELSE IF v.status # 0
       THEN /\ resp' = Reply("join", key, v.status, FALSE, v.error)
            /\ UNCHANGED radioQueue
     ELSE IF ~InGame(key)
       THEN /\ resp' = Reply("join", key, 403, FALSE, "not_in_game")
            /\ UNCHANGED radioQueue
     ELSE IF JoinCoalesced(q, now)
       THEN /\ resp' = [Reply("join", key, 200, TRUE, "") EXCEPT !.ignored = TRUE]
            /\ radioQueue' = Put(radioQueue, key, q)
     ELSE /\ Len(q) < MaxQueue
          /\ radioQueue' = Put(radioQueue, key, Append(q, JoinEvent(now)))
          /\ resp' = Reply("join", key, 200, TRUE, "")

\* lines 768-778 and 800-810, the same in both mute handlers
MuteTail(op, key, muted) ==
  LET q == Queue(key)
      arg == IF muted THEN "true" ELSE "false"
  IN
  IF MuteCoalesced(q, muted, now)
    THEN /\ resp' = [Reply(op, key, 200, TRUE, "") EXCEPT !.ignored = TRUE, !.arg = arg]
         /\ radioQueue' = Put(radioQueue, key, q)
         /\ UNCHANGED conns
    ELSE /\ Len(q) < MaxQueue
         /\ FramesRoom(key)
         /\ conns' = ConnsAfterSend(key, [event |-> "radio", data |-> MuteEvent(muted, now)])
         /\ radioQueue' = Put(radioQueue, key, Append(q, MuteEvent(muted, now)))
         /\ resp' = [Reply(op, key, 200, TRUE, "") EXCEPT !.pushed = Pushed(key), !.arg = arg]

\* POST /radio/mute
RadioMute(limited, rawUser, mutedIn, token) ==
  LET key == toLowerCase(rawUser)
      v == requireTokenForUser(token, key, now)
  IN
  /\ UNCHANGED <<cfgVars, hits, now, presence, pairVars, radioState, sseClients, sseIpCount>>
  /\ IF limited
       THEN /\ resp' = Reply("mute", "", 429, FALSE, "rate_limited")
            /\ UNCHANGED <<radioQueue, conns>>
     ELSE IF rawUser = "" \/ mutedIn \notin {"true", "false"}
       THEN /\ resp' = Reply("mute", "", 400, FALSE, "bad_request")
            /\ UNCHANGED <<radioQueue, conns>>
     ELSE IF v.status # 0
       THEN /\ resp' = Reply("mute", key, v.status, FALSE, v.error)
            /\ UNCHANGED <<radioQueue, conns>>
     ELSE IF ~InGame(key)
       THEN /\ resp' = Reply("mute", key, 403, FALSE, "not_in_game")
            /\ UNCHANGED <<radioQueue, conns>>
     ELSE MuteTail("mute", key, mutedIn = "true")

\* POST /radio/mute/server
RadioMuteServer(limited, hdr, rawUser, mutedIn) ==
  LET key == toLowerCase(rawUser) IN
  /\ UNCHANGED <<cfgVars, hits, now, presence, pairVars, radioState, sseClients, sseIpCount>>
  /\ IF limited
       THEN /\ resp' = Reply("muteServer", "", 429, FALSE, "rate_limited")
            /\ UNCHANGED <<radioQueue, conns>>
     ELSE IF ~KeyOk(hdr)
       THEN /\ resp' = Reply("muteServer", "", 401, FALSE, "unauthorized")
            /\ UNCHANGED <<radioQueue, conns>>
     ELSE IF rawUser = "" \/ mutedIn \notin {"true", "false"}
       THEN /\ resp' = Reply("muteServer", "", 400, FALSE, "bad_request")
            /\ UNCHANGED <<radioQueue, conns>>
     ELSE IF ~InGame(key)
       THEN /\ resp' = Reply("muteServer", key, 403, FALSE, "not_in_game")
            /\ UNCHANGED <<radioQueue, conns>>
     ELSE MuteTail("muteServer", key, mutedIn = "true")

IsWeb(e) == e.target = "web"

\* !e.target || e.target === "roblox"
IsRoblox(e) == "target" \notin DOMAIN e \/ e.target = "" \/ e.target = "roblox"

\* a sync that hands out the web events and leaves them stored
SyncKeptAll(q) == q

\* line 824: events.filter((e) => e.target !== "web")
SyncKept(q) == SelectSeq(q, LAMBDA e : ~IsWeb(e))

\* a sync that hands out the newest event first
SyncTakenNewestFirst(q) ==
  LET w == SelectSeq(q, IsWeb) IN [i \in 1 .. Len(w) |-> w[Len(w) + 1 - i]]

\* line 823: events.filter((e) => e.target === "web")
SyncTaken(q) == SelectSeq(q, IsWeb)

\* GET /radio/sync/:username
RadioSync(limited, rawUser, token) ==
  LET key == toLowerCase(rawUser)
      v == requireTokenForUser(token, key, now)
      q == Queue(key)
  IN
  /\ UNCHANGED <<cfgVars, hits, now, presence, pairVars, radioState, hubVars>>
  /\ IF limited
       THEN /\ resp' = Reply("sync", "", 429, FALSE, "rate_limited")
            /\ UNCHANGED radioQueue
     ELSE IF key = ""
       THEN /\ resp' = Reply("sync", "", 400, FALSE, "bad_request")
            /\ UNCHANGED radioQueue
     ELSE IF v.status # 0
       THEN /\ resp' = Reply("sync", key, v.status, FALSE, v.error)
            /\ UNCHANGED radioQueue
     ELSE /\ radioQueue' = Put(radioQueue, key, SyncKept(q))
          /\ resp' = [Reply("sync", key, 200, TRUE, "") EXCEPT !.events = SyncTaken(q)]

\* a poll that hands out the events and leaves them stored
PollKeptAll(q) == q

\* line 841: events.filter((e) => e.target && e.target !== "roblox")
PollKept(q) == SelectSeq(q, LAMBDA e : ~IsRoblox(e))

\* line 840
PollTaken(q) == SelectSeq(q, IsRoblox)

\* GET /radio/poll/:username
RadioPoll(limited, hdr, rawUser) ==
  LET key == toLowerCase(rawUser)
      q == Queue(key)
  IN
  /\ UNCHANGED <<cfgVars, hits, now, presence, pairVars, radioState, hubVars>>
  /\ IF limited
       THEN /\ resp' = Reply("poll", "", 429, FALSE, "rate_limited")
            /\ UNCHANGED radioQueue
     ELSE IF ~KeyOk(hdr)
       THEN /\ resp' = Reply("poll", "", 401, FALSE, "unauthorized")
            /\ UNCHANGED radioQueue
     ELSE /\ radioQueue' = Put(radioQueue, key, PollKept(q))
          /\ resp' = [Reply("poll", key, 200, TRUE, "") EXCEPT !.events = PollTaken(q)]

\* an event that is kept at the instant it has waited RADIO_TTL
EventFreshLate(ev, t) == t - TsOr(ev.ts, t) <= RADIO_TTL_MS

\* t - (ev.ts || t) < RADIO_TTL_MS
EventFresh(ev, t) == t - TsOr(ev.ts, t) < RADIO_TTL_MS

\* setInterval(cleanupRadioQueue, 60 * 1000)
cleanupRadioQueue ==
  LET kept(key) == SelectSeq(radioQueue[key], LAMBDA ev : EventFresh(ev, now)) IN
  /\ radioQueue' = [key \in {k \in DOMAIN radioQueue : kept(k) # <<>>} |-> kept(key)]
  /\ resp' = Timer("cleanupRadioQueue")
  /\ UNCHANGED <<cfgVars, hits, now, presence, pairVars, radioState, hubVars>>

\* the requests of the queue scenarios follow one user's queue: that user
\* with every token (her own, the other user's, none, a forged one), and one
\* request for each early refusal
JoinInputs ==
  ({FALSE} \X {"Alice"} \X TokenInputs)
    \cup {<<TRUE, "Alice", NoToken>>, <<FALSE, "", NoToken>>}

MuteInputs ==
  ({FALSE} \X {"Alice"} \X {"true", "false"} \X TokenInputs)
    \cup {<<TRUE, "Alice", "true", NoToken>>, <<FALSE, "", "true", NoToken>>,
          <<FALSE, "Alice", "none", NoToken>>}

MuteServerInputs ==
  ({FALSE} \X {"srvkey"} \X {"Alice"} \X {"true", "false"})
    \cup {<<TRUE, "srvkey", "Alice", "true">>, <<FALSE, "wrong", "Alice", "true">>,
          <<FALSE, "srvkey", "", "true">>, <<FALSE, "srvkey", "Alice", "none">>}

SyncInputs == ({FALSE} \X {"Alice"} \X TokenInputs) \cup {<<TRUE, "Alice", NoToken>>}

PollInputs == {<<FALSE, "srvkey", "Alice">>, <<TRUE, "srvkey", "Alice">>,
               <<FALSE, "wrong", "Alice">>}

NextQueue ==
  \/ Tick(QueueTimes)
  \/ \E g \in {"true", "false"}, h \in PresencePass : PostPresence(FALSE, "Alice", g, h)
  \/ \E r \in JoinInputs : RadioJoin(r[1], r[2], r[3])
  \/ \E r \in MuteInputs : RadioMute(r[1], r[2], r[3], r[4])
  \/ \E r \in MuteServerInputs : RadioMuteServer(r[1], r[2], r[3], r[4])
  \/ \E r \in SyncInputs : RadioSync(r[1], r[2], r[3])
  \/ \E r \in PollInputs : RadioPoll(r[1], r[2], r[3])
  \/ cleanupRadioQueue

SpecQueue == InitPaired /\ [][NextQueue]_vars

(***************************************************************************)
(* Push hub: GET /events/:username                                         *)
(***************************************************************************)
IPs == {"ip1", "ip2"}
ConnIds == 1 .. MaxConns

IpCount(ip) == IF Has(sseIpCount, ip) THEN sseIpCount[ip] ELSE 0

IsOpen(id) == Has(conns, id) /\ conns[id].status = "open"

\* the response object of a new request: the first slot not streaming
FreeIds == {id \in ConnIds : ~IsOpen(id)}
NewId == CHOOSE id \in FreeIds : \A other \in FreeIds : id <= other

\* sseAddClient without the check of line 514
UserCapIgnored(key) == FALSE

\* line 506: ipCount >= MAX_SSE_PER_IP
IpCapReached(ip) == IpCount(ip) >= MAX_SSE_PER_IP

\* line 514: set.size >= MAX_SSE_PER_USER
UserCapReached(key) == Cardinality(Subscribers(key)) >= MAX_SSE_PER_USER

\* the response objects still alive: an ended or closed response is garbage
\* once the next request or callback of the hub runs
Live == [id \in {i \in DOMAIN conns : conns[i].status = "open"} |-> conns[id]]

Hello(username) == [event |-> "hello", data |-> username]
Ping == [event |-> "ping", data |-> ""]

\* GET /events/:username; sseAddClient is lines 502-537
SseOpen(limitedIp, limitedUser, rawUser, token, ip) ==
  LET username == toLowerCase(rawUser)
      v == requireTokenForUser(token, username, now)
      id == NewId
  IN
  /\ FreeIds # {}
  /\ UNCHANGED <<cfgVars, hits, now, presence, pairVars, radioState, radioQueue>>
  /\ IF username = ""
       THEN /\ resp' = Reply("events", "", 400, FALSE, "")
            /\ UNCHANGED hubVars
     ELSE IF limitedIp \/ limitedUser
       THEN /\ resp' = Reply("events", username, 429, FALSE, "rate_limited")
            /\ UNCHANGED hubVars
     ELSE IF v.status # 0
       THEN /\ resp' = Reply("events", username, v.status, FALSE, v.error)
            /\ UNCHANGED hubVars
     ELSE IF IpCapReached(ip) \/ UserCapReached(username)
       \* the hello frame of line 711 has gone out with status 200 before
       \* sseAddClient ends the response
       THEN /\ conns' = Put(Live, id, [user |-> username, ip |-> ip, status |-> "ended",
                                        hb |-> FALSE, frames |-> <<Hello(username)>>])
            /\ resp' = [Reply("events", username, 200, FALSE, "ended_429") EXCEPT !.conn = id]
            /\ UNCHANGED <<sseClients, sseIpCount>>
     ELSE /\ conns' = Put(Live, id, [user |-> username, ip |-> ip, status |-> "open",
                                      hb |-> TRUE, frames |-> <<Hello(username)>>])
          /\ sseClients' = Put(sseClients, username, Subscribers(username) \cup {id})
          /\ sseIpCount' = Put(sseIpCount, ip, IpCount(ip) + 1)
          /\ resp' = [Reply("events", username, 200, TRUE, "") EXCEPT !.conn = id]

\* a close that leaves the counter of the IP as it is
IpCountKept(ip) == sseIpCount

\* lines 531-533: the counter of the IP after a close
IpCountClosed(ip) ==
  LET n == (IF IpCount(ip) = 0 THEN 1 ELSE IpCount(ip)) - 1 IN
  IF n <= 0 THEN Del(sseIpCount, ip) ELSE Put(sseIpCount, ip, n)

\* the "close" callbacks of lines 525-534 and 723
SseClose(id) ==
  LET key == conns[id].user
      ip == conns[id].ip
      cur == Subscribers(key) \ {id}
  IN
  /\ IsOpen(id)
  /\ sseClients' = IF ~Has(sseClients, key) THEN sseClients
                   ELSE IF cur = {} THEN Del(sseClients, key)
                   ELSE Put(sseClients, key, cur)
  /\ sseIpCount' = IpCountClosed(ip)
  /\ conns' = [Live EXCEPT ![id].status = "closed", ![id].hb = FALSE]
  /\ resp' = [Timer("close") EXCEPT !.conn = id]
  /\ UNCHANGED <<cfgVars, hits, now, presence, pairVars, radioState, radioQueue>>

\* the heartbeat of lines 717-721
Heartbeat(id) ==
  /\ Has(conns, id)
  /\ conns[id].hb
  /\ Len(conns[id].frames) < MaxFrames
  /\ conns' = [Live EXCEPT ![id].frames = Append(@, Ping)]
  /\ resp' = Timer("ping")
  /\ UNCHANGED <<cfgVars, hits, now, presence, pairVars, radioState, radioQueue, sseClients,
                 sseIpCount>>

\* the requests of the hub scenarios: every user with every token from every
\* IP, and one request for each early refusal
OpenInputs ==
  ({FALSE} \X {FALSE} \X Users \X TokenInputs \X IPs)
    \cup {<<TRUE, FALSE, "Alice", NoToken, "ip1">>, <<FALSE, TRUE, "Alice", NoToken, "ip1">>,
          <<FALSE, FALSE, "", NoToken, "ip1">>}

\* opens and closes; the heartbeat writes to a connection and leaves the hub's
\* tables alone
NextHub ==
  \/ \E r \in OpenInputs : SseOpen(r[1], r[2], r[3], r[4], r[5])
  \/ \E id \in ConnIds : SseClose(id)

SpecHub == InitPaired /\ [][NextHub]_vars

\* opens, closes and heartbeats in any order: alice from either IP with the
\* token she was handed, and bob from ip2 with his
NextBeat ==
  \/ \E ip \in IPs : SseOpen(FALSE, FALSE, "Alice", makeWebToken("alice", StartTime), ip)
  \/ SseOpen(FALSE, FALSE, "bob", makeWebToken("bob", StartTime), "ip2")
  \/ \E id \in ConnIds : SseClose(id)
  \/ \E id \in ConnIds : Heartbeat(id)

SpecBeat == InitPaired /\ [][NextBeat]_vars

(***************************************************************************)
(* Mutes with a listener: the state after scenario S1 once alice has       *)
(* opened GET /events/alice from ip1                                       *)
(***************************************************************************)
InitListening ==
  /\ ROBLOX_SERVER_KEY = "srvkey"
  /\ WEB_TOKEN_SECRET = "s3cret"
  /\ now = StartTime
  /\ presence = [u \in Users |-> [inGame |-> TRUE, havePass |-> FALSE]]
  /\ sessions = Empty
  /\ sessionsByUser = Empty
  /\ tokenRevokedAt = [u \in Users |-> StartTime]
  /\ radioState = Empty
  /\ radioQueue = Empty
  /\ sseClients = [u \in {"alice"} |-> {1}]
  /\ sseIpCount = [ip \in {"ip1"} |-> 1]
  /\ conns = [id \in {1} |-> [user |-> "alice", ip |-> "ip1", status |-> "open",
                              hb |-> TRUE, frames |-> <<Hello("alice")>>]]
  /\ hits = Empty
  /\ tokens ={makeWebToken(u, StartTime) : u \in Users}
  /\ resp = [Reply("events", "alice", 200, TRUE, "") EXCEPT !.conn = 1]

\* two requests at one instant are inside the mute window, two requests at
\* the two instants are at its end
MuteTimes == {StartTime, StartTime + MUTE_DEDUP_MS}

\* the requests of the listener scenarios are the admitted ones: alice with
\* the token she was handed, the game server with its key
NextMute ==
  \/ Tick(MuteTimes)
  \/ \E tok \in tokens : RadioJoin(FALSE, "Alice", tok)
  \/ \E m \in {"true", "false"}, tok \in tokens : RadioMute(FALSE, "Alice", m, tok)
  \/ \E m \in {"true", "false"} : RadioMuteServer(FALSE, "srvkey", "Alice", m)
  \/ \E tok \in tokens : RadioSync(FALSE, "Alice", tok)
  \/ RadioPoll(FALSE, "srvkey", "Alice")
  \/ SseClose(1)

SpecMute == InitListening /\ [][NextMute]_vars

\* the listener scenarios with the queue sweep: the instants are the start,
\* the end of the mute window, and the end of RADIO_TTL for an event stored
\* at the start
FanTimes == {StartTime, StartTime + MUTE_DEDUP_MS, StartTime + RADIO_TTL_MS}

NextFan ==
  \/ Tick(FanTimes)
  \/ \E m \in {"true", "false"}, tok \in tokens : RadioMute(FALSE, "Alice", m, tok)
  \/ \E m \in {"true", "false"} : RadioMuteServer(FALSE, "srvkey", "Alice", m)
  \/ \E tok \in tokens : RadioSync(FALSE, "Alice", tok)
  \/ SseClose(1)
  \/ cleanupRadioQueue

SpecFan == InitListening /\ [][NextFan]_vars

(***************************************************************************)
(* Radio state: POST /radio/state, GET /radio/active, cleanupRadioState    *)
(***************************************************************************)
\* Number(x) on the values a body carries: a numeric string, null, or the
\* field left out ("none", undefined, NaN)
IsFiniteNumber(v) == v \in {"3", "7", "12", "-1", "null"}

NumberOf(v) ==
  CASE v = "3" -> 3
    [] v = "7" -> 7
    [] v = "12" -> 12
    [] v = "-1" -> 0 - 1
    [] OTHER -> 0

\* lines 866-867
SafePos(positionSec) ==
  IF IsFiniteNumber(positionSec) /\ NumberOf(positionSec) >= 0
    THEN NumberOf(positionSec) ELSE 0

\* typeof trackName === "string": "none" is the field left out
IsString(v) == v # "none"

\* the write without the test of line 862
TooSoonNever(key, t) == FALSE

\* line 862: prev && prev.updatedAt && t - prev.updatedAt < STATE_MIN_GAP_MS
TooSoon(key, t) ==
  /\ Has(radioState, key)
  /\ radioState[key].updatedAt # 0
  /\ t - radioState[key].updatedAt < STATE_MIN_GAP_MS

\* lines 869-877
Snapshot(key, body, t) ==
  [trackIndex |-> IF IsFiniteNumber(body.trackIndex) THEN NumberOf(body.trackIndex)
                  ELSE IF Has(radioState, key) THEN radioState[key].trackIndex ELSE 0,
   trackName |-> IF IsString(body.trackName) THEN body.trackName
                 ELSE IF Has(radioState, key) THEN radioState[key].trackName ELSE "",
   positionAt |-> SafePos(body.positionSec),
   isPlaying |-> (body.isPlaying = "true"),
   muted |-> (body.muted = "true"),
   serverTs |-> t,
   updatedAt |-> t]

\* POST /radio/state
PostRadioState(limited, rawUser, token, body) ==
  LET key == toLowerCase(rawUser)
      v == requireTokenForUser(token, key, now)
  IN
  /\ UNCHANGED <<cfgVars, hits, now, presence, pairVars, radioQueue, hubVars>>
  /\ IF limited
       THEN /\ resp' = Reply("state", "", 429, FALSE, "rate_limited")
            /\ UNCHANGED radioState
     ELSE IF rawUser = ""
       THEN /\ resp' = Reply("state", "", 400, FALSE, "bad_request")
            /\ UNCHANGED radioState
     ELSE IF v.status # 0
       THEN /\ resp' = Reply("state", key, v.status, FALSE, v.error)
            /\ UNCHANGED radioState
     ELSE IF ~InGame(key)
       THEN /\ resp' = Reply("state", key, 403, FALSE, "not_in_game")
            /\ UNCHANGED radioState
     ELSE IF TooSoon(key, now)
       THEN /\ resp' = [Reply("state", key, 200, TRUE, "") EXCEPT !.ignored = TRUE]
            /\ UNCHANGED radioState
     ELSE /\ radioState' = Put(radioState, key, Snapshot(key, body, now))
          /\ resp' = Reply("state", key, 200, TRUE, "")

\* one entry of the listing, lines 894-905; the live position is kept in
\* milliseconds: positionSec = positionMs / 1000
Listener(key, t) ==
  LET st == radioState[key]
      elapsedMs == t - TsOr(st.serverTs, t)
  IN
  [username |-> key,
   trackIndex |-> st.trackIndex,
   trackName |-> st.trackName,
   positionMs |-> IF st.isPlaying
                    THEN st.positionAt * 1000 + (IF elapsedMs > 0 THEN elapsedMs ELSE 0)
                    ELSE st.positionAt * 1000,
   isPlaying |-> st.isPlaying,
   muted |-> st.muted,
   lastSeenMs |-> t - st.updatedAt]

\* line 892: the users the listing does not skip
Listed == {key \in DOMAIN radioState : InGame(key)}

\* line 908: the listing in ascending lastSeenMs; entries of equal lastSeenMs
\* stay in the key order of the table, which the model does not record
Listings(t) ==
  LET n == Cardinality(Listed) IN
  { [i \in 1 .. n |-> Listener(order[i], t)] :
      order \in { o \in [1 .. n -> Listed] :
                    /\ \A i, j \in 1 .. n : i # j => o[i] # o[j]
                    /\ \A i, j \in 1 .. n :
                         i < j => radioState[o[i]].updatedAt >= radioState[o[j]].updatedAt } }

\* GET /radio/active after the call of rateLimit
ActiveReply(limited) ==
  IF limited
    THEN resp' = Reply("active", "", 429, FALSE, "rate_limited")
    ELSE \E out \in Listings(now) :
           resp' = [Reply("active", "", 200, TRUE, "") EXCEPT !.listeners = out]

\* GET /radio/active
RadioActive(limited) ==
  /\ UNCHANGED <<cfgVars, hits, now, presence, pairVars, radioState, radioQueue, hubVars>>
  /\ ActiveReply(limited)

\* a purge that waits for twice the lifetime
StateStaleLate(st, t) == t - st.updatedAt > 2 * STATE_TTL_MS

\* line 562: t - (radioState[key].updatedAt || 0) > STATE_TTL_MS
StateStale(st, t) == t - st.updatedAt > STATE_TTL_MS

\* setInterval(cleanupRadioState, 5 * 1000)
cleanupRadioState ==
  /\ radioState' = [key \in {k \in DOMAIN radioState : ~StateStale(radioState[k], now)}
                      |-> radioState[key]]
  /\ resp' = Timer("cleanupRadioState")
  /\ UNCHANGED <<cfgVars, hits, now, presence, pairVars, radioQueue, hubVars>>

\* instants of the radio-state scenarios: the start, the last millisecond
\* inside the minimum gap after a write at the start, the end of that gap,
\* and the first instant at which a snapshot written at the start is purged
StateTimes ==
  { StartTime, StartTime + STATE_MIN_GAP_MS - 1, StartTime + STATE_MIN_GAP_MS,
    StartTime + STATE_TTL_MS + 1 }

\* a body with every field, and a body with the username alone
StateBodies ==
  { [trackIndex |-> "3", trackName |-> "song", positionSec |-> "12",
     isPlaying |-> "true", muted |-> "false"],
    [trackIndex |-> "none", trackName |-> "none", positionSec |-> "-1",
     isPlaying |-> "none", muted |-> "true"] }

\* the state after the presence posts of both users with alice listening on
\* GET /events/alice: either with both secrets configured and both users
\* paired, or with neither configured, when no token is asked for and no code
\* can be issued
InitState ==
  /\ \/ /\ ROBLOX_SERVER_KEY = "srvkey"
        /\ WEB_TOKEN_SECRET = "s3cret"
        /\ tokenRevokedAt = [u \in Users |-> StartTime]
        /\ tokens = {makeWebToken(u, StartTime) : u \in Users}
     \/ /\ ROBLOX_SERVER_KEY = ""
        /\ WEB_TOKEN_SECRET = ""
        /\ tokenRevokedAt = Empty
        /\ tokens = {}
  /\ now = StartTime
  /\ presence = [u \in Users |-> [inGame |-> TRUE, havePass |-> FALSE]]
  /\ sessions = Empty
  /\ sessionsByUser = Empty
  /\ radioState = Empty
  /\ radioQueue = Empty
  /\ sseClients = [u \in {"alice"} |-> {1}]
  /\ sseIpCount = [ip \in {"ip1"} |-> 1]
  /\ conns = [id \in {1} |-> [user |-> "alice", ip |-> "ip1", status |-> "open",
                              hb |-> TRUE, frames |-> <<Hello("alice")>>]]
  /\ hits = Empty
  /\ resp = [Reply("events", "alice", 200, TRUE, "") EXCEPT !.conn = 1]

\* alice's writes with every token and body, one write of bob, and one
\* request for each early refusal
StateInputs ==
  ({FALSE} \X {"Alice"} \X TokenInputs \X StateBodies)
    \cup {<<FALSE, "bob", tok, b>> : tok \in {t \in tokens : t.u = "bob"} \cup {NoToken},
                                     b \in {b \in StateBodies : b.trackIndex = "3"}}
    \cup {<<TRUE, "Alice", NoToken, b>> : b \in {b \in StateBodies : b.trackIndex = "3"}}
    \cup {<<FALSE, "", NoToken, b>> : b \in {b \in StateBodies : b.trackIndex = "3"}}

NextState ==
  \/ Tick(StateTimes)
  \/ \E g \in {"true", "false"}, h \in PresencePass : PostPresence(FALSE, "Alice", g, h)
  \/ \E r \in StateInputs : PostRadioState(r[1], r[2], r[3], r[4])
  \/ \E l \in BOOLEAN : RadioActive(l)
  \/ cleanupRadioState
  \/ \E k \in KeyHeaders, u \in {"Alice", ""}, h \in CreatePass : SessionCreate(k, u, h)

SpecState == InitState /\ [][NextState]_vars

(***************************************************************************)
(* Rate limiter: rateLimit, cleanupRateLimits, and GET /radio/active with  *)
(* the limiter in front                                                    *)
(***************************************************************************)
MaxHits == 42

LIMITS ==
  [verify      |-> [windowMs |-> 15000, max |-> 12],
   sseOpenIp   |-> [windowMs |-> 60000, max |-> 60],
   sseOpenUser |-> [windowMs |-> 60000, max |-> 60],
   joinIp      |-> [windowMs |-> 10000, max |-> 25],
   muteIp      |-> [windowMs |-> 10000, max |-> 25],
   syncIp      |-> [windowMs |-> 10000, max |-> 40],
   stateIp     |-> [windowMs |-> 10000, max |-> 80],
   activeIp    |-> [windowMs |-> 10000, max |-> 40],
   pollIp      |-> [windowMs |-> 10000, max |-> 80],
   presenceIp  |-> [windowMs |-> 10000, max |-> 200]]

\* `${scope}:${a}:${b || ""}`: scope names hold no colon, so the string
\* determines the three parts for every call the server makes
rlKey(scope, a, b) == <<scope, a, b>>

\* a window that is still open at the instant it was to end
WindowOverLate(e, t) == e.resetAt < t

\* line 385: e.resetAt <= t
WindowOver(e, t) == e.resetAt <= t

\* lines 383-390: the entry of the key after the hit
HitEntry(scope, k, t) ==
  LET e == IF ~Has(hits, k) \/ WindowOver(hits[k], t)
             THEN [count |-> 0, resetAt |-> t + LIMITS[scope].windowMs]
             ELSE hits[k]
  IN [e EXCEPT !.count = @ + 1]

\* line 391: e.count > cfg.max, the value rateLimit returns
Limited(scope, k, t) == HitEntry(scope, k, t).count > LIMITS[scope].max

\* GET /radio/active, rateLimit("activeIp", req, res) included
RadioActiveFrom(ip) ==
  LET k == rlKey("activeIp", ip, "") IN
  /\ HitEntry("activeIp", k, now).count <= MaxHits
  /\ hits' = Put(hits, k, HitEntry("activeIp", k, now))
  /\ UNCHANGED <<cfgVars, now, presence, pairVars, radioState, radioQueue, hubVars>>
  /\ ActiveReply(Limited("activeIp", k, now))

\* setInterval(cleanupRateLimits, 60 * 1000); the pass stops after 5000
\* deletions, more than the table ever holds here
cleanupRateLimits ==
  /\ hits' = [k \in {k \in DOMAIN hits : ~(hits[k].resetAt <= now)} |-> hits[k]]
  /\ resp' = Timer("cleanupRateLimits")
  /\ UNCHANGED <<cfgVars, now, presence, pairVars, radioState, radioQueue, hubVars>>

\* instants of the rate-limit scenarios: the start, the last millisecond of
\* a window opened at the start, and its resetAt
RateTimes ==
  { StartTime, StartTime + LIMITS.activeIp.windowMs - 1,
    StartTime + LIMITS.activeIp.windowMs }

NextRate ==
  \/ Tick(RateTimes)
  \/ \E ip \in IPs : RadioActiveFrom(ip)
  \/ cleanupRateLimits

SpecRate == InitPaired /\ [][NextRate]_vars

(***************************************************************************)
(* The token gate in front of the five operations of a browser: the state  *)
(* after scenario S1 with alice listening, then requests with every kind   *)
(* of token, a new code for alice (which revokes her token) and the expiry *)
(* of the tokens                                                           *)
(***************************************************************************)
\* scenario S1 was played a millisecond before the start, and alice opened
\* GET /events/alice from ip1: a code issued from the start on revokes the
\* tokens in the clients' hands
PairedAt == StartTime - 1

InitGate ==
  /\ ROBLOX_SERVER_KEY = "srvkey"
  /\ WEB_TOKEN_SECRET = "s3cret"
  /\ now = StartTime
  /\ presence = [u \in Users |-> [inGame |-> TRUE, havePass |-> FALSE]]
  /\ sessions = Empty
  /\ sessionsByUser = Empty
  /\ tokenRevokedAt = [u \in Users |-> PairedAt]
  /\ radioState = Empty
  /\ radioQueue = Empty
  /\ sseClients = [u \in {"alice"} |-> {1}]
  /\ sseIpCount = [ip \in {"ip1"} |-> 1]
  /\ conns = [id \in {1} |-> [user |-> "alice", ip |-> "ip1", status |-> "open",
                              hb |-> TRUE, frames |-> <<Hello("alice")>>]]
  /\ hits = Empty
  /\ tokens = {makeWebToken(u, PairedAt) : u \in Users}
  /\ resp = [Reply("events", "alice", 200, TRUE, "") EXCEPT !.conn = 1]

\* the start and the expiry of the tokens
GateTimes == {StartTime, PairedAt + WEB_TOKEN_TTL_MS}

\* the tokens the server has handed out, none, and one signed with another key
GateTokens == tokens \cup {NoToken, ForgedToken("alice", now)}

GateBody ==
  [trackIndex |-> "3", trackName |-> "song", positionSec |-> "12",
   isPlaying |-> "true", muted |-> "false"]

\* the requests are on alice, with every token; a join the rate limiter
\* refuses and a mute without its value carry the token alice was handed
NextGate ==
  \/ Tick(GateTimes)
  \/ SessionCreate("srvkey", "Alice", "true")
  \/ \E tok \in GateTokens : RadioJoin(FALSE, "Alice", tok)
  \/ RadioJoin(TRUE, "Alice", makeWebToken("alice", PairedAt))
  \/ \E tok \in GateTokens : RadioMute(FALSE, "Alice", "true", tok)
  \/ RadioMute(FALSE, "Alice", "none", makeWebToken("alice", PairedAt))
  \/ \E tok \in GateTokens : PostRadioState(FALSE, "Alice", tok, GateBody)
  \/ \E tok \in GateTokens : RadioSync(FALSE, "Alice", tok)
  \/ \E tok \in GateTokens : SseOpen(FALSE, FALSE, "Alice", tok, "ip1")

SpecGate == InitGate /\ [][NextGate]_vars

(***************************************************************************)
(* Pairing with its timer: the clock advances and cleanupSessions, set on  *)
(* an interval of 30 s, keeps running                                      *)
(***************************************************************************)
\* the start, a millisecond later, and the expiries of codes issued at these
LiveTimes ==
  { StartTime, StartTime + 1, StartTime + SESSION_TTL_MS,
    StartTime + 1 + SESSION_TTL_MS }

\* the last instant the clock of the scenario reaches
LastTime == StartTime + 1 + SESSION_TTL_MS

InitLive ==
  /\ ROBLOX_SERVER_KEY = "srvkey"
  /\ WEB_TOKEN_SECRET = "s3cret"
  /\ now = StartTime
  /\ presence = [u \in Users |-> [inGame |-> TRUE, havePass |-> FALSE]]
  /\ sessions = Empty
  /\ sessionsByUser = Empty
  /\ tokenRevokedAt = Empty
  /\ radioState = Empty
  /\ radioQueue = Empty
  /\ sseClients = Empty
  /\ sseIpCount = Empty
  /\ conns = Empty
  /\ hits = Empty
  /\ tokens = {}
  /\ resp = Timer("init")

TickLive == Tick(LiveTimes)

\* the codes are issued while the scenario still reaches their expiry
CreateLive(rawUser) ==
  /\ now + SESSION_TTL_MS <= LastTime
  /\ SessionCreate("srvkey", rawUser, "true")

NextLive ==
  \/ TickLive
  \/ \E g \in {"true", "false"} : PostPresence(FALSE, "Alice", g, "false")
  \/ \E u \in {"Alice", "bob"} : CreateLive(u)
  \/ \E c \in RawCodes : SessionVerify(FALSE, c)
  \/ cleanupSessions

SpecLive ==
  InitLive /\ [][NextLive]_vars /\ WF_vars(TickLive) /\ WF_vars(cleanupSessions)

(***************************************************************************)
(* Properties of pairing and tokens                                        *)
(***************************************************************************)
TokensOf(u) == {tok \in tokens : tok.u = u}
ValidTokensOf(u) == {tok \in TokensOf(u) : verifyWebToken(tok, now).ok}
RecordsOf(u) == {c \in DOMAIN sessions : sessions[c].username = u}
IssueOk == resp.op = "create" /\ resp.status = 200
RedeemOk == resp.op = "verify" /\ resp.status = 200 /\ resp.ok

\* C1: when POST /session/create has returned a code for U, no token handed
\* out for U before that call verifies any more, and the token a successful
\* POST /session/verify returns verifies for its user.
C1_IssueRevokesEarlierTokens ==
  /\ IssueOk => \A tok \in TokensOf(resp.user) : ~verifyWebToken(tok, now).ok
  /\ (RedeemOk /\ resp.token # NoToken) =>
        verifyWebToken(resp.token, now) = [ok |-> TRUE, error |-> "", username |-> resp.user]

\* C2: a successful redemption removes the code from the primary table and
\* from the per-user index in the step that returns the token, and a
\* redemption of a code that is not stored answers invalid_or_expired: a code
\* is redeemed at most once per issue.
C2_OneShot ==
  [][ /\ (resp'.op = "verify" /\ resp'.status = 200 /\ resp'.ok) =>
           /\ Has(sessions, resp'.code)
           /\ ~Has(sessions', resp'.code)
           /\ \A u \in DOMAIN sessionsByUser' : sessionsByUser'[u] # resp'.code
      /\ (resp'.op = "verify" /\ resp'.status = 200 /\ ~Has(sessions, resp'.code)) =>
           /\ resp'.error = "invalid_or_expired"
           /\ tokens' = tokens ]_vars

C2_Witness == RedeemOk /\ resp.token \in tokens /\ ~Has(sessions, resp.code)

\* C3 as claimed: in every state the per-user index contains U exactly when a
\* stored record of U has exp > now, and the entry is that record's code.
C3_IndexIffLive ==
  \A u \in Users :
    /\ Has(sessionsByUser, u) <=> \E c \in RecordsOf(u) : sessions[c].exp > now
    /\ Has(sessionsByUser, u) => sessionsByUser[u] \in RecordsOf(u)

\* C3 amended: in every state the per-user index contains U exactly when the
\* primary table stores a record of U, expired or not, and the entry is that
\* record's code; every stored record has exp > now in the states right after
\* cleanupSessions has run (the timer, or the sweep at the start of an
\* authorised issue and of a redemption).
Swept ==
  \/ resp.op = "cleanupSessions"
  \/ resp.op = "create" /\ resp.status \in {200, 403, 500}
  \/ resp.op = "verify" /\ resp.status = 200

C3_IndexIffStored ==
  /\ \A u \in Users :
       /\ Has(sessionsByUser, u) <=> RecordsOf(u) # {}
       /\ Has(sessionsByUser, u) => RecordsOf(u) = {sessionsByUser[u]}
  /\ Swept => \A c \in DOMAIN sessions : sessions[c].exp > now

C3_Witness ==
  \E u \in Users :
    /\ Has(sessionsByUser, u)
    /\ Has(sessions, sessionsByUser[u])
    /\ sessions[sessionsByUser[u]].exp <= now

\* C4: the primary table never holds two records of one user; right after an
\* issue the only record of the user is the new code, and a redemption
\* succeeds only for the code the index holds for its user.
C4_OneCodePerUser ==
  /\ [](\A u \in Users : Cardinality(RecordsOf(u)) <= 1)
  /\ [](IssueOk => /\ RecordsOf(resp.user) = {resp.code}
                   /\ sessionsByUser[resp.user] = resp.code)
  /\ [][ (resp'.op = "verify" /\ resp'.status = 200 /\ resp'.ok) =>
           /\ Has(sessionsByUser, resp'.user)
           /\ sessionsByUser[resp'.user] = resp'.code ]_vars

C4_Witness == IssueOk /\ Cardinality(DOMAIN sessions) = 2

\* C5 as claimed: revokedAt[u], 0 when absent, never decreases in any step.
C5_RevokedAtMonotone ==
  [][ \A u \in Users : RevokedAtOrZero(u)' >= RevokedAtOrZero(u) ]_vars

\* C5 amended: revokedAt[u] never decreases in any step except that the
\* revocation-epoch GC deletes the entry, and when it does every token handed
\* out for u before that epoch has expired.
C5_MonotoneUntilDropped ==
  [][ \A u \in Users :
        \/ RevokedAtOrZero(u)' >= RevokedAtOrZero(u)
        \/ /\ resp'.op = "cleanupTokenRevocations"
           /\ ~Has(tokenRevokedAt', u)
           /\ \A tok \in TokensOf(u) : tok.iat < tokenRevokedAt[u] => tok.exp <= now ]_vars

C5_Witness ==
  /\ resp.op = "cleanupTokenRevocations"
  /\ \E u \in Users : TokensOf(u) # {} /\ ~Has(tokenRevokedAt, u)

\* C6: in every state at most one token handed out for a user verifies.
C6_OneValidTokenPerUser == \A u \in Users : Cardinality(ValidTokensOf(u)) <= 1

(***************************************************************************)
(* Properties of the push hub                                              *)
(***************************************************************************)
\* C7: the subscriber set of a user never holds more than MAX_SSE_PER_USER
\* connections and the counter of an IP never exceeds MAX_SSE_PER_IP.
C7_HubCaps ==
  /\ \A u \in DOMAIN sseClients : Cardinality(sseClients[u]) <= MAX_SSE_PER_USER
  /\ \A ip \in DOMAIN sseIpCount : sseIpCount[ip] <= MAX_SSE_PER_IP

\* an open was refused while a user set is full, and an IP is at its cap
C7_Witness ==
  /\ resp.op = "events" /\ resp.error = "ended_429"
  /\ Cardinality(Subscribers(resp.user)) = MAX_SSE_PER_USER
  /\ \E ip \in IPs : IpCount(ip) = MAX_SSE_PER_IP
(***************************************************************************)
(* Properties of the event queue                                           *)
(***************************************************************************)
IsJoin(e) == e.type = "RADIO_JOIN"
HasMuted(e) == "muted" \in DOMAIN e
LastOf(q) == q[Len(q)]
WebOf(q) == SelectSeq(q, LAMBDA e : e.target = "web")
RestOf(q) == SelectSeq(q, LAMBDA e : e.target # "web")
QueueNext(key) == IF Has(radioQueue', key) THEN radioQueue'[key] ELSE <<>>

\* C8 as claimed: whatever is interleaved, of two joins of one user less than
\* JOIN_DEDUP_WINDOW apart only one is stored: no queue holds two RADIO_JOIN
\* records less than 10 s apart.
C8_OneJoinPerWindow ==
  \A u \in DOMAIN radioQueue :
    \A i, j \in 1 .. Len(radioQueue[u]) :
      (i < j /\ IsJoin(radioQueue[u][i]) /\ IsJoin(radioQueue[u][j]))
        => radioQueue[u][j].ts - radioQueue[u][i].ts >= 10000

\* C8 amended: an admitted join of U is ignored (ignored:true, the queue as it
\* was) exactly when the last record of U's queue at that moment is a
\* RADIO_JOIN stored less than 10 s earlier; otherwise it is stored at the end
\* of the queue, so a second join inside the window is stored again once a
\* mute was appended, or a poll or the GC removed the first, in between.
C8_JoinCoalescedOnLast ==
  [][ (resp'.op = "join" /\ resp'.status = 200) =>
        LET q == Queue(resp'.user) IN
        IF q # <<>> /\ IsJoin(LastOf(q)) /\ now - LastOf(q).ts < 10000
          THEN resp'.ignored /\ QueueNext(resp'.user) = q
          ELSE /\ ~resp'.ignored
               /\ QueueNext(resp'.user) =
                    Append(q, [type |-> "RADIO_JOIN", target |-> "roblox", ts |-> now]) ]_vars

C8_Witness ==
  /\ resp.op = "join" /\ resp.status = 200 /\ resp.ignored
  /\ Queue(resp.user) # <<>>
  /\ IsJoin(LastOf(Queue(resp.user)))
  /\ now > LastOf(Queue(resp.user)).ts

\* C9 as claimed: whatever is interleaved, of two mutes of one user with the
\* same muted value less than MUTE_DEDUP_WINDOW apart only the first is
\* stored: no queue holds two such records (with no record of the other muted
\* value between them) less than 1.5 s apart.
C9_OneMutePerWindow ==
  \A u \in DOMAIN radioQueue :
    \A i, j \in 1 .. Len(radioQueue[u]) :
      LET q == radioQueue[u] IN
      ( /\ i < j /\ HasMuted(q[i]) /\ HasMuted(q[j])
        /\ q[i].muted = q[j].muted
        /\ \A k \in (i + 1) .. (j - 1) : HasMuted(q[k]) => q[k].muted = q[i].muted )
        => q[j].ts - q[i].ts >= 1500

\* C9 amended: an admitted mute or unmute of U, from either endpoint, is
\* ignored (nothing stored, nothing pushed) exactly when the last record of
\* U's queue at that moment carries the same muted value and was stored less
\* than 1.5 s earlier; otherwise it is written to every open subscriber of U
\* and stored at the end of the queue, so a second identical mute inside the
\* window is stored and pushed again once a join was appended, or a sync or
\* the GC removed the first, in between.
C9_MuteCoalescedOnLast ==
  [][ (resp'.op \in {"mute", "muteServer"} /\ resp'.status = 200) =>
        LET u == resp'.user
            q == Queue(u)
            m == (resp'.arg = "true")
            ev == [type |-> IF m THEN "RADIO_MUTE" ELSE "RADIO_UNMUTE", target |-> "web",
                   muted |-> m, ts |-> now]
        IN
        IF q # <<>> /\ HasMuted(LastOf(q)) /\ LastOf(q).muted = m /\ now - LastOf(q).ts < 1500
          THEN /\ resp'.ignored /\ ~resp'.pushed
               /\ QueueNext(u) = q
               /\ conns' = conns
          ELSE /\ ~resp'.ignored
               /\ QueueNext(u) = Append(q, ev)
               /\ resp'.pushed = (Subscribers(u) # {})
               /\ \A id \in DOMAIN conns :
                    conns'[id].frames =
                      IF id \in Subscribers(u)
                        THEN Append(conns[id].frames, [event |-> "radio", data |-> ev])
                        ELSE conns[id].frames ]_vars

\* a second identical mute was ignored while the subscriber that got the
\* first is still open
C9_Witness ==
  /\ resp.op \in {"mute", "muteServer"} /\ resp.status = 200 /\ resp.ignored
  /\ \E id \in Subscribers(resp.user) :
       /\ Len(conns[id].frames) = 2
       /\ conns[id].frames[2].event = "radio"
       /\ conns[id].frames[2].data = LastOf(Queue(resp.user))

\* C10: a sync of U returns the web events of U's queue in queue order,
\* removes them and leaves every other event in place; a sync right after a
\* sync of the same user returns an empty list.
C10_SyncDrainsWeb ==
  [][ (resp'.op = "sync" /\ resp'.status = 200) =>
        /\ resp'.events = WebOf(Queue(resp'.user))
        /\ QueueNext(resp'.user) = RestOf(Queue(resp'.user))
        /\ WebOf(QueueNext(resp'.user)) = <<>>
        /\ (resp.op = "sync" /\ resp.status = 200 /\ resp.user = resp'.user)
             => resp'.events = <<>> ]_vars

C10_Witness ==
  /\ resp.op = "sync" /\ resp.status = 200
  /\ resp.events # <<>>
  /\ Queue(resp.user) # <<>>

RobloxOf(q) == SelectSeq(q, LAMBDA e : e.target = "roblox")
IsPrefix(s, t) == Len(s) <= Len(t) /\ SubSeq(t, 1, Len(s)) = s
PollOk == resp.op = "poll" /\ resp.status = 200

\* C11 as claimed: a poll of U returns exactly the roblox-audience events
\* stored for U, removes them, and returns and removes no web event; in every
\* other step the roblox-audience events waiting for U stay as they are or
\* grow at the end, so none is lost before the next poll.
C11_PollExactlyOnce ==
  [][ \A u \in Users :
        IF resp'.op = "poll" /\ resp'.status = 200 /\ resp'.user = u
          THEN /\ resp'.events = RobloxOf(Queue(u))
               /\ RobloxOf(QueueNext(u)) = <<>>
               /\ WebOf(resp'.events) = <<>>
               /\ QueueNext(u) = WebOf(Queue(u))
          ELSE IsPrefix(RobloxOf(Queue(u)), RobloxOf(QueueNext(u))) ]_vars

\* C11 amended: as claimed, except that cleanupRadioQueue drops the events
\* stored RADIO_TTL or longer ago, which the next poll no longer returns.
C11_PollExactlyOnceUnlessAged ==
  [][ \A u \in Users :
        IF resp'.op = "poll" /\ resp'.status = 200 /\ resp'.user = u
          THEN /\ resp'.events = RobloxOf(Queue(u))
               /\ RobloxOf(QueueNext(u)) = <<>>
               /\ WebOf(resp'.events) = <<>>
               /\ QueueNext(u) = WebOf(Queue(u))
          ELSE \/ IsPrefix(RobloxOf(Queue(u)), RobloxOf(QueueNext(u)))
               \/ /\ resp'.op = "cleanupRadioQueue"
                  /\ RobloxOf(QueueNext(u)) =
                       SelectSeq(RobloxOf(Queue(u)), LAMBDA e : now - e.ts < 300000) ]_vars

\* a poll returned an event and left a web event stored
C11_Witness == PollOk /\ resp.events # <<>> /\ Queue(resp.user) # <<>>

RECURSIVE IsSubSeq(_, _)
IsSubSeq(a, b) ==
  IF a = <<>> THEN TRUE
  ELSE IF b = <<>> THEN FALSE
  ELSE IF Head(a) = Head(b) THEN IsSubSeq(Tail(a), Tail(b))
  ELSE IsSubSeq(a, Tail(b))

\* C12: every queue is in the order of its appends (the timestamps never go
\* back along it), every step leaves a queue as it was, with some events
\* taken out and the others in their order, or with one event added at the
\* end, the events of a sync or poll reply are in the order they had in the
\* queue, and a drain leaves the events of the other audience as they were.
C12_OrderPreserved ==
  /\ [](\A u \in DOMAIN radioQueue :
          \A i, j \in 1 .. Len(radioQueue[u]) :
            i < j => radioQueue[u][i].ts <= radioQueue[u][j].ts)
  /\ [][ \A u \in Users :
           /\ \/ IsSubSeq(QueueNext(u), Queue(u))
              \/ /\ Len(QueueNext(u)) = Len(Queue(u)) + 1
                 /\ IsPrefix(Queue(u), QueueNext(u))
                 /\ LastOf(QueueNext(u)).ts = now
           /\ (resp'.op \in {"sync", "poll"} /\ resp'.status = 200 /\ resp'.user = u) =>
                /\ IsSubSeq(resp'.events, Queue(u))
                /\ resp'.op = "sync" => RobloxOf(QueueNext(u)) = RobloxOf(Queue(u))
                /\ resp'.op = "poll" => WebOf(QueueNext(u)) = WebOf(Queue(u)) ]_vars

\* a sync returned two different events and left a join behind
C12_Witness ==
  /\ resp.op = "sync" /\ resp.status = 200
  /\ Len(resp.events) >= 2
  /\ resp.events[1] # resp.events[2]
  /\ RobloxOf(Queue(resp.user)) # <<>>

(***************************************************************************)
(* Properties of the radio state                                           *)
(***************************************************************************)
ActiveOk == resp.op = "active" /\ resp.status = 200

\* C13 as claimed: a user whose last radio-state write is STATE_TTL or more
\* in the past is in no listing of GET /radio/active, whenever the read
\* happens.
C13_StaleNeverListed ==
  ActiveOk => \A i \in 1 .. Len(resp.listeners) : resp.listeners[i].lastSeenMs < 25000

\* C13 amended: GET /radio/active lists every in-game user with a stored
\* snapshot, whatever its age; right after cleanupRadioState has run no stored
\* snapshot is older than STATE_TTL; and a snapshot comes into the table only
\* by a write of its user.  So a user is out of the listing from the first run
\* of the purge later than STATE_TTL after the last write, and until then a
\* read lists the user with lastSeenMs beyond STATE_TTL.
C13_StaleListedUntilPurged ==
  /\ [](resp.op = "cleanupRadioState" =>
          \A u \in DOMAIN radioState : now - radioState[u].updatedAt <= 25000)
  /\ [][ (resp'.op = "active" /\ resp'.status = 200) =>
           /\ {resp'.listeners[i].username : i \in 1 .. Len(resp'.listeners)} =
                {u \in DOMAIN radioState : Has(presence, u) /\ presence[u].inGame}
           /\ \A i \in 1 .. Len(resp'.listeners) :
                resp'.listeners[i].lastSeenMs =
                  now - radioState[resp'.listeners[i].username].updatedAt ]_vars
  /\ [][ \A u \in DOMAIN radioState' :
           \/ Has(radioState, u) /\ radioState'[u] = radioState[u]
           \/ /\ resp'.op = "state" /\ resp'.user = u
              /\ radioState'[u].updatedAt = now ]_vars

\* a read before the purge lists a snapshot older than STATE_TTL
C13_Witness ==
  ActiveOk /\ \E i \in 1 .. Len(resp.listeners) : resp.listeners[i].lastSeenMs > 25000

\* C20: an admitted /radio/state write of U that finds a snapshot of U
\* written less than 700 ms earlier answers ignored:true and leaves the table
\* as it was; any other admitted write stores a snapshot of U with serverTs =
\* updatedAt = now and leaves the other users' snapshots alone.
C20_StateMinGap ==
  [][ (resp'.op = "state" /\ resp'.status = 200) =>
        LET u == resp'.user IN
        IF Has(radioState, u) /\ now - radioState[u].updatedAt < 700
          THEN resp'.ignored /\ radioState' = radioState
          ELSE /\ ~resp'.ignored
               /\ Has(radioState', u)
               /\ radioState'[u].serverTs = now
               /\ radioState'[u].updatedAt = now
               /\ \A o \in (DOMAIN radioState \cup DOMAIN radioState') \ {u} :
                    Has(radioState, o) /\ Has(radioState', o) /\ radioState'[o] = radioState[o]
    ]_vars

\* a write 699 ms after the last one was ignored
C20_Witness ==
  /\ resp.op = "state" /\ resp.status = 200 /\ resp.ignored
  /\ now - radioState[resp.user].updatedAt = 699

\* C16: POST /session/create with no configured key or a header that differs
\* from it answers 401 unauthorized and changes nothing; with the key right
\* and U absent from presence or not in game it answers 403 not_in_game, and
\* revokedAt, the snapshots, the connections (no KICK frame) and every
\* unexpired code with its index entry are as before.
C16_IssueGated ==
  [][ \A k \in KeyHeaders, r \in RawUsers \ {""}, h \in CreatePass :
        SessionCreate(k, r, h) =>
          LET u == toLowerCase(r) IN
          IF ROBLOX_SERVER_KEY = "" \/ k # ROBLOX_SERVER_KEY
            THEN /\ resp'.status = 401 /\ resp'.error = "unauthorized"
                 /\ UNCHANGED <<sessions, sessionsByUser, tokenRevokedAt, radioState, conns>>
          ELSE IF ~(Has(presence, u) /\ presence[u].inGame)
            THEN /\ resp'.status = 403 /\ resp'.error = "not_in_game"
                 /\ UNCHANGED <<tokenRevokedAt, radioState, conns>>
                 /\ \A c \in DOMAIN sessions :
                      sessions[c].exp > now =>
                        /\ Has(sessions', c) /\ sessions'[c] = sessions[c]
                        /\ sessionsByUser[sessions[c].username] = c =>
                             /\ Has(sessionsByUser', sessions[c].username)
                             /\ sessionsByUser'[sessions[c].username] = c
          ELSE resp'.status \in {200, 500} ]_vars

\* an issue was refused with not_in_game while the user has a pending code, a
\* snapshot and an open subscriber
C16_Witness ==
  /\ resp.op = "create" /\ resp.status = 403
  /\ Has(sessionsByUser, resp.user)
  /\ Has(radioState, resp.user)
  /\ Subscribers(resp.user) # {}

(***************************************************************************)
(* Further properties of pairing and tokens                                *)
(***************************************************************************)
\* C14: a token the server minted for U at t carries U and t, verifies with
\* username U while now < t + WEB_TOKEN_TTL and revokedAt[U] <= t, fails with
\* token_expired from t + WEB_TOKEN_TTL on, and fails with token_revoked while
\* unexpired once revokedAt[U] > t.
C14_VerifyOfMint ==
  /\ (RedeemOk /\ resp.token # NoToken) =>
        resp.token \in tokens /\ resp.token.u = resp.user /\ resp.token.iat = now
  /\ \A tok \in tokens :
       LET v == verifyWebToken(tok, now) IN
       IF now >= tok.iat + 600000 THEN ~v.ok /\ v.error = "token_expired"
       ELSE IF RevokedAtOrZero(tok.u) > tok.iat THEN ~v.ok /\ v.error = "token_revoked"
       ELSE v.ok /\ v.username = tok.u

\* one token verifies at its own revocation epoch, later than it was minted,
\* while another is revoked
C14_Witness ==
  \E a, b \in tokens :
    /\ verifyWebToken(a, now).ok /\ RevokedAtOrZero(a.u) = a.iat /\ now > a.iat
    /\ verifyWebToken(b, now).error = "token_revoked"

\* C17: a redemption of a stored, unexpired code whose user is not in game
\* answers not_in_game, hands out no token and removes the code from the
\* primary table and from the per-user index; a redemption of a code that is
\* not stored answers invalid_or_expired, and a code string comes back into
\* the table only by a new issue.
C17_RedeemNotInGame ==
  /\ [][ \A c \in RawCodes \ {""} :
           SessionVerify(FALSE, c) =>
             LET key == trimUpper(c) IN
             IF Has(sessions, key) /\ sessions[key].exp > now
               THEN LET u == sessions[key].username IN
                    ~(Has(presence, u) /\ presence[u].inGame) =>
                      /\ resp'.error = "not_in_game" /\ ~resp'.ok
                      /\ resp'.token = NoToken
                      /\ tokens' = tokens
                      /\ ~Has(sessions', key)
                      /\ ~(Has(sessionsByUser', u) /\ sessionsByUser'[u] = key)
               ELSE resp'.error = "invalid_or_expired" /\ tokens' = tokens ]_vars
  /\ [][ \A key \in DOMAIN sessions' \ DOMAIN sessions :
           resp'.op = "create" /\ resp'.code = key ]_vars

\* a redemption was refused with not_in_game and its code is gone
C17_Witness ==
  /\ resp.op = "verify" /\ resp.error = "not_in_game"
  /\ ~Has(sessions, resp.code)
  /\ ~Has(sessionsByUser, resp.user)

(***************************************************************************)
(* Properties of the rate limiter                                          *)
(***************************************************************************)
\* C15: a hit of a principal that finds no window open (no entry, or resetAt
\* <= now) opens one that ends windowMs later and is admitted; a hit inside
\* an open window is admitted exactly while fewer than max hits were counted
\* in it and is answered 429 rate_limited otherwise; every hit is counted, no
\* hit touches another principal's window, and the sweep removes only windows
\* that are over.
C15_FixedWindow ==
  /\ [][ \A ip \in IPs :
           RadioActiveFrom(ip) =>
             LET k == <<"activeIp", ip, "">>
                 fresh == ~Has(hits, k) \/ hits[k].resetAt <= now
                 seen == IF fresh THEN 0 ELSE hits[k].count
             IN
             /\ IF seen >= 40
                  THEN resp'.status = 429 /\ resp'.error = "rate_limited"
                  ELSE resp'.status = 200
             /\ hits'[k].count = seen + 1
             /\ hits'[k].resetAt = IF fresh THEN now + 10000 ELSE hits[k].resetAt
             /\ \A o \in DOMAIN hits \ {k} : Has(hits', o) /\ hits'[o] = hits[o] ]_vars
  /\ [][ resp'.op # "active" =>
           \A k \in DOMAIN hits :
             IF resp'.op = "cleanupRateLimits" /\ hits[k].resetAt <= now
               THEN ~Has(hits', k)
               ELSE Has(hits', k) /\ hits'[k] = hits[k] ]_vars

\* the 41st hit of a window was refused at the last millisecond of the window
C15_Witness ==
  /\ resp.op = "active" /\ resp.status = 429
  /\ \E k \in DOMAIN hits : hits[k].count = 41 /\ hits[k].resetAt = now + 1

(***************************************************************************)
(* Properties of the mute fan-out                                          *)
(***************************************************************************)
MuteStored(u) ==
  /\ resp'.op \in {"mute", "muteServer"} /\ resp'.status = 200 /\ ~resp'.ignored
  /\ resp'.user = u

SyncOk(u) == resp'.op = "sync" /\ resp'.status = 200 /\ resp'.user = u

\* C19 as stated: a mute that is not coalesced adds one web record at the end
\* of U's queue with or without a subscriber, its pushed flag tells whether U
\* had an open subscriber, the record stays stored until a sync of U, and the
\* sync returns it and removes it.
C19_MuteReachesSync ==
  [][ \A u \in Users :
        /\ MuteStored(u) =>
             /\ QueueNext(u) = Append(Queue(u), LastOf(QueueNext(u)))
             /\ LastOf(QueueNext(u)).target = "web"
             /\ LastOf(QueueNext(u)).muted = (resp'.arg = "true")
             /\ resp'.pushed = (Subscribers(u) # {})
        /\ IF SyncOk(u)
             THEN resp'.events = WebOf(Queue(u)) /\ WebOf(QueueNext(u)) = <<>>
             ELSE IsPrefix(WebOf(Queue(u)), WebOf(QueueNext(u))) ]_vars

\* C19 with the sweep: as above, but a record that has waited RADIO_TTL is
\* dropped by cleanupRadioQueue and is then returned by no sync; no other step
\* takes a web record out of the queue.
C19_MuteReachesSyncUnlessAged ==
  [][ \A u \in Users :
        /\ MuteStored(u) =>
             /\ QueueNext(u) = Append(Queue(u), LastOf(QueueNext(u)))
             /\ LastOf(QueueNext(u)).target = "web"
             /\ LastOf(QueueNext(u)).muted = (resp'.arg = "true")
             /\ resp'.pushed = (Subscribers(u) # {})
        /\ IF SyncOk(u)
             THEN resp'.events = WebOf(Queue(u)) /\ WebOf(QueueNext(u)) = <<>>
             ELSE \/ IsPrefix(WebOf(Queue(u)), WebOf(QueueNext(u)))
                  \/ /\ resp'.op = "cleanupRadioQueue"
                     /\ WebOf(QueueNext(u)) =
                          SelectSeq(WebOf(Queue(u)), LAMBDA e : now - e.ts < 300000) ]_vars

\* a sync returned a mute that was stored after the only subscriber had
\* closed: nothing but the hello frame ever reached the subscriber
C19_Witness ==
  /\ resp.op = "sync" /\ resp.status = 200 /\ resp.user = "alice"
  /\ Len(resp.events) = 1 /\ HasMuted(resp.events[1])
  /\ Queue("alice") = <<>>
  /\ conns[1].status = "closed" /\ Len(conns[1].frames) = 1

(***************************************************************************)
(* Properties of the token gate                                            *)
(***************************************************************************)
\* the two-part form, the signature of the server's secret, expiresAt > now
\* and issuedAt >= revokedAt[user]
Verifies(tok) ==
  /\ tok.parts = 2
  /\ tok.sig = <<WEB_TOKEN_SECRET, tok.u, tok.iat, tok.exp>>
  /\ tok.u # "" /\ tok.exp > now
  /\ \A u \in DOMAIN tokenRevokedAt : u = tok.u => tok.iat >= tokenRevokedAt[u]

\* the queue, the snapshot and the subscribers of u are what they were
Untouched(u) ==
  /\ QueueNext(u) = Queue(u)
  /\ Has(radioState', u) = Has(radioState, u)
  /\ Has(radioState, u) => radioState'[u] = radioState[u]
  /\ Has(sseClients', u) = Has(sseClients, u)
  /\ Has(sseClients, u) => sseClients'[u] = sseClients[u]
  /\ conns' = conns

\* the reply and the effect of a request on alice that presented tok and that
\* the rate limiter and the validation of the fields let through
Gated(tok) ==
  IF ~Verifies(tok) THEN resp'.status = 401 /\ ~resp'.ok /\ Untouched("alice")
  ELSE IF tok.u # "alice"
    THEN resp'.status = 403 /\ resp'.error = "token_user_mismatch" /\ Untouched("alice")
  ELSE resp'.status \notin {400, 401, 429} /\ resp'.error # "token_user_mismatch"

\* C18: with a secret configured, a request on alice that the rate limiter
\* and the validation of its fields let through is answered 401 when its token
\* does not verify (missing, forged, expired, revoked), 403
\* token_user_mismatch when the token verifies for another user, and goes on
\* otherwise; in the two refusals alice's queue, snapshot and subscribers are
\* unchanged, and no request changes any of them unless a token that verifies
\* for alice exists.
C18_TokenGate ==
  [][ /\ WEB_TOKEN_SECRET # ""
      /\ \A tok \in GateTokens :
           /\ (resp'.op = "join" /\ RadioJoin(FALSE, "Alice", tok)) => Gated(tok)
           /\ (resp'.op = "mute" /\ RadioMute(FALSE, "Alice", "true", tok)) => Gated(tok)
           /\ (resp'.op = "state" /\ PostRadioState(FALSE, "Alice", tok, GateBody))
                => Gated(tok)
           /\ (resp'.op = "sync" /\ RadioSync(FALSE, "Alice", tok)) => Gated(tok)
           /\ (resp'.op = "events" /\ SseOpen(FALSE, FALSE, "Alice", tok, "ip1"))
                => Gated(tok)
      /\ (resp'.op \in {"join", "mute", "state", "sync", "events"} /\ ~Untouched("alice"))
           => \E tok \in tokens : Verifies(tok) /\ tok.u = "alice" ]_vars

\* alice's token was refused as revoked by POST /radio/state while the join
\* it had let through earlier is still in her queue
C18_Witness ==
  /\ resp.op = "state" /\ resp.status = 401 /\ resp.error = "token_revoked"
  /\ Queue("alice") # <<>>
  /\ ~Has(radioState, "alice")

(***************************************************************************)
(* Properties of the fields of a snapshot                                  *)
(***************************************************************************)
Given(v) == v \in {"true", "false"}

\* C21: an accepted write stores, for each of trackIndex, trackName,
\* positionSec, isPlaying and muted, the value of the request when the request
\* has one (a negative position as 0), the value of the previous snapshot
\* when it has none, and 0, "" or false when there is no previous snapshot.
C21_MissingFieldsKeepPrevious ==
  [][ \A r \in StateInputs :
        ( /\ resp'.op = "state" /\ resp'.status = 200 /\ ~resp'.ignored
          /\ PostRadioState(r[1], r[2], r[3], r[4]) ) =>
          LET key == resp'.user
              b == r[4]
              had == Has(radioState, key)
              new == radioState'[key]
          IN
          /\ new.trackIndex =
               IF b.trackIndex \in {"3", "7", "12"} THEN NumberOf(b.trackIndex)
               ELSE IF had THEN radioState[key].trackIndex ELSE 0
          /\ new.trackName =
               IF b.trackName # "none" THEN b.trackName
               ELSE IF had THEN radioState[key].trackName ELSE ""
          /\ new.positionAt =
               IF b.positionSec \in {"3", "7", "12"} THEN NumberOf(b.positionSec)
               ELSE IF b.positionSec = "-1" THEN 0
               ELSE IF had THEN radioState[key].positionAt ELSE 0
          /\ new.isPlaying =
               IF Given(b.isPlaying) THEN b.isPlaying = "true"
               ELSE IF had THEN radioState[key].isPlaying ELSE FALSE
          /\ new.muted =
               IF Given(b.muted) THEN b.muted = "true"
               ELSE IF had THEN radioState[key].muted ELSE FALSE ]_vars

(***************************************************************************)
(* Further properties of the push hub                                      *)
(***************************************************************************)
\* C22: an open that finds the subscriber set of its user or the counter of
\* its IP at the cap is answered 429, and its connection gets no hello frame,
\* is in no subscriber set and has no heartbeat.
C22_HelloAfterAdmission ==
  [][ \A u \in Users, ip \in IPs :
        ( /\ resp'.op = "events" /\ resp'.user = u
          /\ resp'.status \notin {400, 401, 403} /\ resp'.error # "rate_limited"
          /\ \/ Cardinality(Subscribers(u)) >= MAX_SSE_PER_USER
             \/ IpCount(ip) >= MAX_SSE_PER_IP
          /\ \E tok \in TokenInputs : SseOpen(FALSE, FALSE, u, tok, ip) ) =>
          /\ resp'.status = 429
          /\ Has(conns', resp'.conn) => /\ conns'[resp'.conn].frames = <<>>
                                        /\ ~conns'[resp'.conn].hb
          /\ sseClients' = sseClients
          /\ sseIpCount' = sseIpCount ]_vars

Registered == UNION {sseClients[u] : u \in DOMAIN sseClients}

\* C23: after any sequence of opens, closes and heartbeats, the counter of
\* every IP is the number of registered subscribers opened from it, every
\* registered subscriber is an open connection of the user it is filed under,
\* a connection that is not open is in no subscriber set and has no
\* heartbeat and is written to no more, and the hub holds no empty subscriber
\* set and no counter of zero.
C23_NoOrphans ==
  /\ [](/\ \A ip \in IPs \cup DOMAIN sseIpCount :
             IpCount(ip) = Cardinality({id \in Registered : conns[id].ip = ip})
        /\ \A u \in DOMAIN sseClients :
             /\ sseClients[u] # {}
             /\ \A id \in sseClients[u] : IsOpen(id) /\ conns[id].user = u
        /\ \A ip \in DOMAIN sseIpCount : sseIpCount[ip] > 0
        /\ \A id \in DOMAIN conns :
             conns[id].status # "open" => id \notin Registered /\ ~conns[id].hb)
  /\ [][ \A id \in DOMAIN conns :
           conns[id].status # "open" =>
             \/ ~Has(conns', id)
             \/ conns'[id] = conns[id]
             \/ resp'.op = "events" /\ resp'.conn = id ]_vars

\* a connection has just closed while another one from the same IP, which
\* has had a heartbeat, stays registered
C23_Witness ==
  /\ resp.op = "close" /\ Has(conns, resp.conn) /\ conns[resp.conn].status = "closed"
  /\ IpCount(conns[resp.conn].ip) = 1
  /\ \E id \in Registered :
       /\ conns[id].ip = conns[resp.conn].ip
       /\ Len(conns[id].frames) >= 2

(***************************************************************************)
(* Properties of the lifetime of a code                                    *)
(***************************************************************************)
\* C24: a redeem of a code whose stored record has exp <= now, whether or not
\* a sweep has run since, is answered invalid_or_expired, mints no token and
\* leaves no record of the code; a redeem that succeeds is of a record with
\* exp > now.
C24_ExpiredNeverRedeemed ==
  [][ resp'.op = "verify" =>
        /\ \A c \in DOMAIN sessions :
             (sessions[c].exp <= now /\ resp'.code = c) =>
               /\ ~resp'.ok /\ resp'.error = "invalid_or_expired"
               /\ resp'.token = NoToken
               /\ tokens' = tokens
               /\ ~Has(sessions', c)
        /\ resp'.ok => Has(sessions, resp'.code) /\ sessions[resp'.code].exp > now ]_vars

\* the code issued to alice at the start was refused at the instant of its
\* expiry: alice is in game, and no token was ever minted
C24_Witness ==
  /\ resp.op = "verify" /\ resp.error = "invalid_or_expired" /\ resp.code \in Codes
  /\ now = StartTime + SESSION_TTL_MS
  /\ Has(tokenRevokedAt, "alice") /\ tokenRevokedAt["alice"] = StartTime
  /\ InGame("alice")
  /\ tokens = {}

(***************************************************************************)
(* Properties of the sweep of the event queue                              *)
(***************************************************************************)
\* C25: a run of cleanupRadioQueue leaves in every queue exactly the events
\* with now - ts < RADIO_TTL, in the order they had, and leaves no key with
\* an empty queue, whatever keys were empty before it; a key with an empty
\* queue appears only by a sync, a poll, a join or a mute of that user.
C25_QueueSweep ==
  [][ /\ resp'.op = "cleanupRadioQueue" =>
           /\ \A u \in Users \cup DOMAIN radioQueue :
                QueueNext(u) = SelectSeq(Queue(u), LAMBDA e : now - e.ts < 300000)
           /\ \A u \in DOMAIN radioQueue' :
                /\ radioQueue'[u] # <<>>
                /\ \A i \in 1 .. Len(radioQueue'[u]) : now - radioQueue'[u][i].ts < 300000
      /\ \A u \in DOMAIN radioQueue' :
           (radioQueue'[u] = <<>> /\ ~(Has(radioQueue, u) /\ radioQueue[u] = <<>>)) =>
             /\ resp'.op \in {"sync", "poll", "join", "mute", "muteServer"}
             /\ resp'.user = u ]_vars

\* the sweep has run at the end of RADIO_TTL for the events of the start and
\* has left two younger events of alice in place
C25_Witness ==
  /\ resp.op = "cleanupRadioQueue"
  /\ now = StartTime + RADIO_TTL_MS
  /\ Len(Queue("alice")) >= 2

(***************************************************************************)
(* Liveness of the pairing table                                           *)
(***************************************************************************)
Pending(c, u, e) ==
  Has(sessions, c) /\ sessions[c].username = u /\ sessions[c].exp = e

Indexed(c, u) == Has(sessionsByUser, u) /\ sessionsByUser[u] = c

\* C26: while the clock advances and cleanupSessions keeps running, every
\* record of the primary table is removed at some later instant, and so is
\* the index entry of its user for its code: no record and no index entry
\* stays for ever.
C26_CodesLeave ==
  /\ \A c \in Codes, u \in Users, t \in LiveTimes :
       Pending(c, u, t + SESSION_TTL_MS) ~> ~Pending(c, u, t + SESSION_TTL_MS)
  /\ \A c \in Codes, u \in Users : Indexed(c, u) ~> ~Indexed(c, u)

\* the timer has swept the code issued to alice at the start, which nobody
\* redeemed, and the table and the index are empty
C26_Witness ==
  /\ resp.op = "cleanupSessions"
  /\ sessions = Empty /\ sessionsByUser = Empty
  /\ now >= StartTime + SESSION_TTL_MS
  /\ DOMAIN tokenRevokedAt = {"alice"} /\ tokenRevokedAt["alice"] = StartTime
  /\ tokens = {}
====
